---- MODULE Spec2Model ----
(***************************************************************************)
(* A model of the 6502 / 2A03 processor core: memory, status register,     *)
(* stack pointer, addressing-mode resolution, the opcode table, the        *)
(* instruction semantics and the fetch-decode-execute loop of CPU::run.    *)
(*                                                                         *)
(* Bytes are integers 0..255 and words are integers 0..65535; every        *)
(* arithmetic step keeps the width the Rust code gives it.  Memory is the  *)
(* 65536-byte array, represented by the function of its non-zero bytes (a  *)
(* byte that is not in the domain reads as 0, as in Memory::default()).    *)
(* A panic of the Rust code (expect, todo!, slice bounds, checked integer  *)
(* overflow) is recorded in the variable panic and ends the run.  Integer  *)
(* overflow of `+` / `+=` panics in a build with overflow checks and wraps *)
(* in a build without; the variable overflow_checks fixes the build.       *)
(***************************************************************************)
EXTENDS Integers, Sequences, FiniteSets, TLC

VARIABLES
    accumulator,      \* CPU.accumulator: u8
    index_x,          \* CPU.index_x: u8
    index_y,          \* CPU.index_y: u8
    program_counter,  \* CPU.program_counter: u16
    stack_pointer,    \* CPU.stack_pointer: StackPointer(u8)
    status,           \* CPU.status: Status (bitmask over u8)
    memory,           \* CPU.memory: Memory([u8; 0x10000]), non-zero bytes only
    mode,             \* CPU.mode: Mode
    overflow_checks,  \* build profile: TRUE when `+` panics on overflow
    phase,            \* where the caller is: New, Loaded, Ready, Running, Halted, Aborted
    panic,            \* the panic that aborted the run, or NoPanic
    last,             \* the last operation performed, with the state before it
    steps,            \* number of run-loop iterations performed so far
    setups            \* number of caller writes made so far

vars == <<accumulator, index_x, index_y, program_counter, stack_pointer, status,
          memory, mode, overflow_checks, phase, panic, last, steps, setups>>

-----------------------------------------------------------------------------
(* Bounds of the model *)

\* run-loop iterations explored per behaviour
MaxSteps == 8

\* caller writes (memory or public fields) made per behaviour
MaxSetup == 1

\* direct calls of stack_push / stack_pop made per behaviour
MaxStackOps == 2

\* the number of reads and writes in a run of the memory on its own
MaxMemoryOps == 2

-----------------------------------------------------------------------------
(* memory.rs : constants *)

MEMORY_SIZE == 65536

STACK == 253

RESET == 65532

INTERRUPT == 65534

U8 == 0..255

U16 == 0..65535

-----------------------------------------------------------------------------
(* Bit operations on bytes, as the u8 operators &, |, ^, ! compute them *)

Bit(v, i) == (v \div (2 ^ i)) % 2

BitAnd(a, b) ==
    LET t(i) == (2 ^ i) * (Bit(a, i) * Bit(b, i))
    IN t(0) + t(1) + t(2) + t(3) + t(4) + t(5) + t(6) + t(7)

BitOr(a, b) ==
    LET t(i) == (2 ^ i) * (IF Bit(a, i) + Bit(b, i) > 0 THEN 1 ELSE 0)
    IN t(0) + t(1) + t(2) + t(3) + t(4) + t(5) + t(6) + t(7)

BitXor(a, b) ==
    LET t(i) == (2 ^ i) * ((Bit(a, i) + Bit(b, i)) % 2)
    IN t(0) + t(1) + t(2) + t(3) + t(4) + t(5) + t(6) + t(7)

BitNot(a) == 255 - a

-----------------------------------------------------------------------------
(* status.rs : the Status bitmask *)

Carry == 1

Zero == 2

InterruptDisable == 4

Decimal == 8

Break == 16

Break2 == 32

Overflow == 64

Negative == 128

Flags == {Carry, Zero, InterruptDisable, Decimal, Break, Break2, Overflow, Negative}

\* Status::default()
Status_default == BitOr(BitOr(InterruptDisable, Break), Break2)

\* Status::contains(flag), generated by the bitmask macro
contains(st, flag) == BitAnd(st, flag) = flag

\* a set that clears with the flag itself as the mask, keeping only that bit
Status_set_masks_with_flag(st, flag, value) ==
    IF value THEN BitOr(st, flag) ELSE BitAnd(st, flag)

\* Status::set(flag, value)
Status_set(st, flag, value) ==
    IF value THEN BitOr(st, flag) ELSE BitAnd(st, BitNot(flag))

\* a carry that is already set for a sum of 255
set_carry_from_255(st, result) == Status_set(st, Carry, result >= 255)

set_carry(st, result) == Status_set(st, Carry, result > 255)

set_negative(st, result) == Status_set(st, Negative, BitAnd(result, 128) # 0)

set_overflow(st, result) == Status_set(st, Overflow, result)

set_zero(st, result) == Status_set(st, Zero, result = 0)

-----------------------------------------------------------------------------
(* mode.rs *)

Modes == {"Mos6502", "Nes2A03"}

Mode_default == "Nes2A03"

\* one origin for both modes
program_rom_always_nes(m) == 32768

program_rom(m) == IF m = "Mos6502" THEN 1536 ELSE 32768

-----------------------------------------------------------------------------
(* memory.rs : Memory *)

\* Memory::default(): every byte 0
Memory_default == [a \in {} |-> 0]

\* u8::read_from_memory
Read8(m, addr) == IF addr \in DOMAIN m THEN m[addr] ELSE 0

\* u8::write_to_memory (a zero byte is dropped from the representation)
Write8(m, addr, val) ==
    IF val = 0
    THEN [a \in (DOMAIN m) \ {addr} |-> m[a]]
    ELSE [a \in (DOMAIN m) \cup {addr} |-> IF a = addr THEN val ELSE m[a]]

\* the slice memory.0[addr..addr + 2] exists
InRange16(addr) == addr + 2 <= MEMORY_SIZE

\* u16::read_from_memory, for an address whose slice exists: little-endian
Read16(m, addr) == Read8(m, addr) + 256 * Read8(m, addr + 1)

\* a 16-bit write that stores the high byte first
Write16_big_endian(m, addr, val) == Write8(Write8(m, addr, val \div 256), addr + 1, val % 256)

\* u16::write_to_memory, for an address whose slice exists: to_le_bytes
Write16(m, addr, val) == Write8(Write8(m, addr, val % 256), addr + 1, val \div 256)

RECURSIVE CopyFrom(_, _, _, _)
\* memory.0[origin..origin + len].copy_from_slice(program), from index i on
CopyFrom(m, origin, program, i) ==
    IF i > Len(program) THEN m
    ELSE CopyFrom(Write8(m, origin + i - 1, program[i]), origin, program, i + 1)

\* Memory::load(program, mode) of a program that fits below the end of memory
Memory_load(m, program, md) ==
    Write16(CopyFrom(m, program_rom(md), program, 1), RESET, program_rom(md))

-----------------------------------------------------------------------------
(* mod.rs : StackPointer *)

\* StackPointer::default()
StackPointer_default == STACK % 256

\* Into<u16> for StackPointer: the memory address the stack pointer denotes
StackAddress(sp) == sp

\* a stack pointer that stops at the ends of the page instead of wrapping
advance_saturating(sp, offset) ==
    IF sp + offset > 255 THEN 255 ELSE IF sp + offset < 0 THEN 0 ELSE sp + offset

\* StackPointer::advance(offset): (self.0 as i16 + offset) as u8
advance(sp, offset) == (sp + offset) % 256

-----------------------------------------------------------------------------
(* opcodes.rs : the opcode table *)

AddressingModes ==
    {"Immediate", "ZeroPage", "ZeroPageX", "ZeroPageY", "Absolute", "AbsoluteX",
     "AbsoluteY", "Indirect", "IndirectX", "IndirectY", "Relative", "NoneAddressing"}

\* instructions.rs : enum Instruction
Instructions ==
    {"ADC", "AND", "ASL", "BCC", "BCS", "BEQ", "BIT", "BMI", "BNE", "BPL", "BRK",
     "BVC", "BVS", "CLC", "CLD", "CLI", "CLV", "CMP", "CPX", "CPY", "DEC", "DEX",
     "DEY", "EOR", "INC", "INX", "INY", "JMP", "JSR", "LDA", "LDX", "LDY", "LSR",
     "NOP", "ORA", "PHA", "PHP", "PLA", "PLP", "ROL", "ROR", "RTI", "RTS", "SBC",
     "SEC", "SED", "SEI", "STA", "STX", "STY", "TAX", "TAY", "TSX", "TXA", "TXS",
     "TYA"}

\* OpCode::new
Op(code, instruction, len, cycles, md) ==
    [code |-> code, instruction |-> instruction, len |-> len, cycles |-> cycles,
     mode |-> md]

CPU_OPS_CODES == <<
    Op(105, "ADC", 2, 2, "Immediate"),
    Op(101, "ADC", 2, 3, "ZeroPage"),
    Op(117, "ADC", 2, 4, "ZeroPageX"),
    Op(109, "ADC", 3, 4, "Absolute"),
    Op(125, "ADC", 3, 4, "AbsoluteX"),
    Op(121, "ADC", 3, 4, "AbsoluteY"),
    Op(97, "ADC", 2, 6, "IndirectX"),
    Op(113, "ADC", 2, 5, "IndirectY"),
    Op(41, "AND", 2, 2, "Immediate"),
    Op(37, "AND", 2, 3, "ZeroPage"),
    Op(53, "AND", 2, 4, "ZeroPageX"),
    Op(45, "AND", 3, 4, "Absolute"),
    Op(61, "AND", 3, 4, "AbsoluteX"),
    Op(57, "AND", 3, 4, "AbsoluteY"),
    Op(33, "AND", 2, 6, "IndirectX"),
    Op(49, "AND", 2, 5, "IndirectY"),
    Op(10, "ASL", 1, 2, "NoneAddressing"),
    Op(6, "ASL", 2, 5, "ZeroPage"),
    Op(22, "ASL", 2, 6, "ZeroPageX"),
    Op(14, "ASL", 3, 6, "Absolute"),
    Op(30, "ASL", 3, 7, "AbsoluteX"),
    Op(144, "BCC", 2, 2, "Relative"),
    Op(176, "BCS", 2, 2, "Relative"),
    Op(240, "BEQ", 2, 2, "Relative"),
    Op(48, "BMI", 2, 2, "Relative"),
    Op(208, "BNE", 2, 2, "Relative"),
    Op(16, "BPL", 2, 2, "Relative"),
    Op(80, "BVC", 2, 2, "Relative"),
    Op(112, "BVS", 2, 2, "Relative"),
    Op(36, "BIT", 2, 3, "ZeroPage"),
    Op(44, "BIT", 3, 4, "Absolute"),
    Op(0, "BRK", 1, 7, "NoneAddressing"),
    Op(24, "CLC", 1, 2, "NoneAddressing"),
    Op(216, "CLD", 1, 2, "NoneAddressing"),
    Op(88, "CLI", 1, 2, "NoneAddressing"),
    Op(184, "CLV", 1, 2, "NoneAddressing"),
    Op(201, "CMP", 2, 2, "Immediate"),
    Op(197, "CMP", 2, 3, "ZeroPage"),
    Op(213, "CMP", 2, 4, "ZeroPageX"),
    Op(205, "CMP", 3, 4, "Absolute"),
    Op(221, "CMP", 3, 4, "AbsoluteX"),
    Op(217, "CMP", 3, 4, "AbsoluteY"),
    Op(193, "CMP", 2, 6, "IndirectX"),
    Op(209, "CMP", 2, 5, "IndirectY"),
    Op(224, "CPX", 2, 2, "Immediate"),
    Op(228, "CPX", 2, 3, "ZeroPage"),
    Op(236, "CPX", 3, 4, "Absolute"),
    Op(192, "CPY", 2, 2, "Immediate"),
    Op(196, "CPY", 2, 3, "ZeroPage"),
    Op(204, "CPY", 3, 4, "Absolute"),
    Op(198, "DEC", 2, 5, "ZeroPage"),
    Op(214, "DEC", 2, 6, "ZeroPageX"),
    Op(206, "DEC", 3, 6, "Absolute"),
    Op(222, "DEC", 3, 7, "AbsoluteX"),
    Op(202, "DEX", 1, 2, "NoneAddressing"),
    Op(136, "DEY", 1, 2, "NoneAddressing"),
    Op(73, "EOR", 2, 2, "Immediate"),
    Op(69, "EOR", 2, 3, "ZeroPage"),
    Op(85, "EOR", 2, 4, "ZeroPageX"),
    Op(77, "EOR", 3, 4, "Absolute"),
    Op(93, "EOR", 3, 4, "AbsoluteX"),
    Op(89, "EOR", 3, 4, "AbsoluteY"),
    Op(65, "EOR", 2, 6, "IndirectX"),
    Op(81, "EOR", 2, 5, "IndirectY"),
    Op(230, "INC", 2, 5, "ZeroPage"),
    Op(246, "INC", 2, 6, "ZeroPageX"),
    Op(238, "INC", 3, 6, "Absolute"),
    Op(254, "INC", 3, 7, "AbsoluteX"),
    Op(232, "INX", 1, 2, "NoneAddressing"),
    Op(200, "INY", 1, 2, "NoneAddressing"),
    Op(76, "JMP", 3, 3, "Absolute"),
    Op(108, "JMP", 3, 5, "Indirect"),
    Op(32, "JSR", 3, 6, "Absolute"),
    Op(169, "LDA", 2, 2, "Immediate"),
    Op(165, "LDA", 2, 3, "ZeroPage"),
    Op(181, "LDA", 2, 4, "ZeroPageX"),
    Op(173, "LDA", 3, 4, "Absolute"),
    Op(189, "LDA", 3, 4, "AbsoluteX"),
    Op(185, "LDA", 3, 4, "AbsoluteY"),
    Op(161, "LDA", 2, 6, "IndirectX"),
    Op(177, "LDA", 2, 5, "IndirectY"),
    Op(162, "LDX", 2, 2, "Immediate"),
    Op(166, "LDX", 2, 3, "ZeroPage"),
    Op(182, "LDX", 2, 4, "ZeroPageY"),
    Op(174, "LDX", 3, 4, "Absolute"),
    Op(190, "LDX", 3, 4, "AbsoluteY"),
    Op(160, "LDY", 2, 2, "Immediate"),
    Op(164, "LDY", 2, 3, "ZeroPage"),
    Op(180, "LDY", 2, 4, "ZeroPageY"),
    Op(172, "LDY", 3, 4, "Absolute"),
    Op(188, "LDY", 3, 4, "AbsoluteY"),
    Op(234, "NOP", 1, 2, "NoneAddressing"),
    Op(9, "ORA", 2, 2, "Immediate"),
    Op(5, "ORA", 2, 3, "ZeroPage"),
    Op(21, "ORA", 2, 4, "ZeroPageX"),
    Op(13, "ORA", 3, 4, "Absolute"),
    Op(29, "ORA", 3, 4, "AbsoluteX"),
    Op(25, "ORA", 3, 4, "AbsoluteY"),
    Op(1, "ORA", 2, 6, "IndirectX"),
    Op(17, "ORA", 2, 5, "IndirectY"),
    Op(42, "ROL", 1, 2, "NoneAddressing"),
    Op(38, "ROL", 2, 5, "ZeroPage"),
    Op(54, "ROL", 2, 6, "ZeroPageX"),
    Op(46, "ROL", 3, 6, "Absolute"),
    Op(62, "ROL", 3, 7, "AbsoluteX"),
    Op(106, "ROR", 1, 2, "NoneAddressing"),
    Op(102, "ROR", 2, 5, "ZeroPage"),
    Op(118, "ROR", 2, 6, "ZeroPageX"),
    Op(110, "ROR", 3, 6, "Absolute"),
    Op(126, "ROR", 3, 7, "AbsoluteX"),
    Op(96, "RTS", 1, 6, "NoneAddressing"),
    Op(233, "SBC", 2, 2, "Immediate"),
    Op(229, "SBC", 2, 3, "ZeroPage"),
    Op(245, "SBC", 2, 4, "ZeroPageX"),
    Op(237, "SBC", 3, 4, "Absolute"),
    Op(253, "SBC", 3, 4, "AbsoluteX"),
    Op(249, "SBC", 3, 4, "AbsoluteY"),
    Op(225, "SBC", 2, 6, "IndirectX"),
    Op(241, "SBC", 2, 5, "IndirectY"),
    Op(56, "SEC", 1, 2, "NoneAddressing"),
    Op(248, "SED", 1, 2, "NoneAddressing"),
    Op(120, "SEI", 1, 2, "NoneAddressing"),
    Op(133, "STA", 2, 3, "ZeroPage"),
    Op(149, "STA", 2, 4, "ZeroPageX"),
    Op(141, "STA", 3, 4, "Absolute"),
    Op(157, "STA", 3, 5, "AbsoluteX"),
    Op(153, "STA", 3, 5, "AbsoluteY"),
    Op(129, "STA", 2, 6, "IndirectX"),
    Op(145, "STA", 2, 6, "IndirectY"),
    Op(134, "STX", 2, 3, "ZeroPage"),
    Op(150, "STX", 2, 4, "ZeroPageY"),
    Op(142, "STX", 3, 4, "Absolute"),
    Op(132, "STY", 2, 3, "ZeroPage"),
    Op(148, "STY", 2, 4, "ZeroPageX"),
    Op(140, "STY", 3, 4, "Absolute"),
    Op(170, "TAX", 1, 2, "NoneAddressing"),
    Op(168, "TAY", 1, 2, "NoneAddressing"),
    Op(186, "TSX", 1, 2, "NoneAddressing"),
    Op(138, "TXA", 1, 2, "NoneAddressing"),
    Op(154, "TXS", 1, 2, "NoneAddressing"),
    Op(152, "TYA", 1, 2, "NoneAddressing")
>>

\* OPCODES_MAP: each entry inserted under its code, a later entry replacing an
\* earlier one with the same code
OPCODES_MAP ==
    [code \in {CPU_OPS_CODES[i].code : i \in DOMAIN CPU_OPS_CODES} |->
        CPU_OPS_CODES[CHOOSE i \in DOMAIN CPU_OPS_CODES :
            /\ CPU_OPS_CODES[i].code = code
            /\ \A j \in DOMAIN CPU_OPS_CODES :
                   CPU_OPS_CODES[j].code = code => j <= i]]

-----------------------------------------------------------------------------
(* mod.rs : the CPU.  Operations are written over a record c of the CPU's  *)
(* fields plus the panic they raised, so that they compose as in the code. *)

NoPanic == "none"

PanicOverflow == "attempt to add with overflow"

PanicUnrecognized == "Opcode is not recognized"

PanicTodo == "not yet implemented"

PanicMissingOperand == "Required operand is missing"

PanicBounds == "range end index out of range"

\* Option<u16>::None
None == -1

Self ==
    [accumulator |-> accumulator, index_x |-> index_x, index_y |-> index_y,
     program_counter |-> program_counter, stack_pointer |-> stack_pointer,
     status |-> status, memory |-> memory, mode |-> mode, panic |-> NoPanic]

Panicked(c) == c.panic # NoPanic

Panic(c, msg) == [c EXCEPT !.panic = msg]

\* `self.program_counter += n` / `self.program_counter + n` on u16: the sum,
\* or a panic in a build that checks overflow
Wraps(sum) == sum > 65535

add_program_counter(c, n) ==
    IF Wraps(c.program_counter + n) /\ overflow_checks
    THEN Panic(c, PanicOverflow)
    ELSE [c EXCEPT !.program_counter = (c.program_counter + n) % 65536]

\* CPU::read_program_counter::<u8>
read_program_counter_u8(c) ==
    [val |-> Read8(c.memory, c.program_counter), c |-> add_program_counter(c, 1)]

\* a 16-bit read that advances program_counter by one byte
read_program_counter_u16_advances_one(c) ==
    IF ~InRange16(c.program_counter)
    THEN [val |-> 0, c |-> Panic(c, PanicBounds)]
    ELSE [val |-> Read16(c.memory, c.program_counter), c |-> add_program_counter(c, 1)]

\* CPU::read_program_counter::<u16>
read_program_counter_u16(c) ==
    IF ~InRange16(c.program_counter)
    THEN [val |-> 0, c |-> Panic(c, PanicBounds)]
    ELSE [val |-> Read16(c.memory, c.program_counter), c |-> add_program_counter(c, 2)]

\* a pointer read that takes the high byte from the next address, page one
\* after 0xFF
read_indirect_across_page(c, ptr) ==
    LET lo == Read8(c.memory, ptr)
        hi == Read8(c.memory, ptr + 1)
    IN hi * 256 + lo

\* a pointer read with the high byte first
read_indirect_big_endian(c, ptr) ==
    LET hi == Read8(c.memory, ptr)
        lo == Read8(c.memory, (ptr + 1) % 256)
    IN hi * 256 + lo

\* CPU::read_indirect
read_indirect(c, ptr) ==
    LET lo == Read8(c.memory, ptr)
        hi == Read8(c.memory, (ptr + 1) % 256)
    IN hi * 256 + lo

\* `as i8` of a byte
AsI8(b) == IF b >= 128 THEN b - 256 ELSE b

\* resolution of AddressingMode::Indirect: the two operand bytes form a
\* pointer, the 16-bit value stored there is the address
get_operand_address_indirect(c) ==
    LET r == read_program_counter_u16(c)
    IN IF Panicked(r.c) THEN [addr |-> None, c |-> r.c]
       ELSE IF ~InRange16(r.val) THEN [addr |-> None, c |-> Panic(r.c, PanicBounds)]
       ELSE [addr |-> Read16(r.c.memory, r.val), c |-> r.c]

\* a resolution whose zero-page index sums are not cut to 8 bits and whose
\* absolute index sums are not cut to 16 bits
get_operand_address_unwrapped(c, md) ==
    LET b == read_program_counter_u8(c)
        w == read_program_counter_u16(c)
        some(r, a) == [addr |-> IF Panicked(r.c) THEN None ELSE a, c |-> r.c]
    IN CASE md = "Immediate" ->
              LET n == add_program_counter(c, 1)
              IN [addr |-> IF Panicked(n) THEN None ELSE c.program_counter, c |-> n]
         [] md = "ZeroPage" -> some(b, b.val)
         [] md = "ZeroPageX" -> some(b, b.val + c.index_x)
         [] md = "ZeroPageY" -> some(b, b.val + c.index_y)
         [] md = "Absolute" -> some(w, w.val)
         [] md = "AbsoluteX" -> some(w, w.val + c.index_x)
         [] md = "AbsoluteY" -> some(w, w.val + c.index_y)
         [] md = "Indirect" -> get_operand_address_indirect(c)
         [] md = "IndirectX" -> some(b, read_indirect(b.c, (b.val + c.index_x) % 256))
         [] md = "IndirectY" -> some(b, (read_indirect(b.c, b.val) + c.index_y) % 65536)
         [] md = "Relative" -> some(b, (b.c.program_counter + AsI8(b.val)) % 65536)
         [] md = "NoneAddressing" -> [addr |-> None, c |-> c]

\* CPU::get_operand_address
get_operand_address(c, md) ==
    LET b == read_program_counter_u8(c)
        w == read_program_counter_u16(c)
        some(r, a) == [addr |-> IF Panicked(r.c) THEN None ELSE a, c |-> r.c]
    IN CASE md = "Immediate" ->
              LET n == add_program_counter(c, 1)
              IN [addr |-> IF Panicked(n) THEN None ELSE c.program_counter, c |-> n]
         [] md = "ZeroPage" -> some(b, b.val)
         [] md = "ZeroPageX" -> some(b, (b.val + c.index_x) % 256)
         [] md = "ZeroPageY" -> some(b, (b.val + c.index_y) % 256)
         [] md = "Absolute" -> some(w, w.val)
         [] md = "AbsoluteX" -> some(w, (w.val + c.index_x) % 65536)
         [] md = "AbsoluteY" -> some(w, (w.val + c.index_y) % 65536)
         [] md = "Indirect" -> get_operand_address_indirect(c)
         [] md = "IndirectX" -> some(b, read_indirect(b.c, (b.val + c.index_x) % 256))
         [] md = "IndirectY" -> some(b, (read_indirect(b.c, b.val) + c.index_y) % 65536)
         [] md = "Relative" -> some(b, (b.c.program_counter + AsI8(b.val)) % 65536)
         [] md = "NoneAddressing" -> [addr |-> None, c |-> c]

\* CPU::set_status_negative_zero
set_status_negative_zero(c, value) ==
    [c EXCEPT !.status = set_zero(set_negative(c.status, value), value)]

\* CPU::set_accumulator
set_accumulator(c, value) ==
    set_status_negative_zero([c EXCEPT !.accumulator = value], value)

\* CPU::set_index_x
set_index_x(c, value) ==
    set_status_negative_zero([c EXCEPT !.index_x = value], value)

\* CPU::set_index_y
set_index_y(c, value) ==
    set_status_negative_zero([c EXCEPT !.index_y = value], value)

\* an addition that leaves the carry flag out of the sum
add_to_accumulator_without_carry_in(c, value) ==
    LET sum == c.accumulator + value
        result == sum % 256
        st1 == set_carry(c.status, sum)
        st2 == set_overflow(st1,
                  BitAnd(BitAnd(BitXor(value, result), BitXor(result, c.accumulator)), 128) # 0)
    IN set_accumulator([c EXCEPT !.status = st2], result)

\* an addition whose overflow flag compares the operand with the accumulator
\* instead of with the result
add_to_accumulator_overflow_from_operands(c, value) ==
    LET sum == c.accumulator + value + (IF contains(c.status, Carry) THEN 1 ELSE 0)
        result == sum % 256
        st1 == set_carry(c.status, sum)
        st2 == set_overflow(st1,
                  BitAnd(BitAnd(BitXor(value, c.accumulator), BitXor(result, c.accumulator)), 128) # 0)
    IN set_accumulator([c EXCEPT !.status = st2], result)

\* CPU::add_to_accumulator
add_to_accumulator(c, value) ==
    LET sum == c.accumulator + value + (IF contains(c.status, Carry) THEN 1 ELSE 0)
        result == sum % 256
        st1 == set_carry(c.status, sum)
        st2 == set_overflow(st1,
                  BitAnd(BitAnd(BitXor(value, result), BitXor(result, c.accumulator)), 128) # 0)
    IN set_accumulator([c EXCEPT !.status = st2], result)

\* CPU::branch
branch(c, displacement, condition) ==
    IF condition THEN add_program_counter(c, displacement) ELSE c

\* a comparison whose carry is set only when the register is greater
compare_carry_when_greater(c, value, addr) ==
    LET rhs == Read8(c.memory, addr)
        result == (value - rhs) % 256
    IN [c EXCEPT !.status =
            set_negative(set_zero(Status_set(c.status, Carry, value > rhs), result), result)]

\* CPU::compare
compare(c, value, addr) ==
    LET rhs == Read8(c.memory, addr)
        result == (value - rhs) % 256
    IN [c EXCEPT !.status =
            set_negative(set_zero(Status_set(c.status, Carry, value >= rhs), result), result)]

\* CPU::stack_push::<u8>
stack_push_u8(c, value) ==
    [c EXCEPT !.memory = Write8(c.memory, StackAddress(c.stack_pointer), value),
              !.stack_pointer = advance(c.stack_pointer, 1)]

\* CPU::stack_push::<u16>
stack_push_u16(c, value) ==
    IF ~InRange16(StackAddress(c.stack_pointer)) THEN Panic(c, PanicBounds)
    ELSE [c EXCEPT !.memory = Write16(c.memory, StackAddress(c.stack_pointer), value),
                   !.stack_pointer = advance(c.stack_pointer, 2)]

\* CPU::stack_pop::<u8>
stack_pop_u8(c) ==
    LET sp == advance(c.stack_pointer, -1)
    IN [val |-> Read8(c.memory, StackAddress(sp)), c |-> [c EXCEPT !.stack_pointer = sp]]

\* CPU::stack_pop::<u16>
stack_pop_u16(c) ==
    LET sp == advance(c.stack_pointer, -2)
        n == [c EXCEPT !.stack_pointer = sp]
    IN IF ~InRange16(StackAddress(sp)) THEN [val |-> 0, c |-> Panic(n, PanicBounds)]
       ELSE [val |-> Read16(c.memory, StackAddress(sp)), c |-> n]

-----------------------------------------------------------------------------
(* mod.rs : impl Instructions for CPU *)

adc(c, addr) == add_to_accumulator(c, Read8(c.memory, addr))

and(c, addr) == set_accumulator(c, BitAnd(c.accumulator, Read8(c.memory, addr)))

\* a shift that always leaves its result in the accumulator
asl_into_accumulator(c, addr) ==
    LET value == IF addr # None THEN Read8(c.memory, addr) ELSE c.accumulator
        result == (value * 2) % 256
        st == set_zero(set_negative(Status_set(c.status, Carry, value \div 128 = 1),
                                    result), result)
    IN [c EXCEPT !.status = st, !.accumulator = result]

asl(c, addr) ==
    LET value == IF addr # None THEN Read8(c.memory, addr) ELSE c.accumulator
        result == (value * 2) % 256
        st == set_zero(set_negative(Status_set(c.status, Carry, value \div 128 = 1),
                                    result), result)
    IN IF addr # None
       THEN [c EXCEPT !.status = st, !.memory = Write8(c.memory, addr, result)]
       ELSE [c EXCEPT !.status = st, !.accumulator = result]

bcc(c, displacement) == branch(c, displacement, ~contains(c.status, Carry))

bcs(c, displacement) == branch(c, displacement, contains(c.status, Carry))

beq(c, displacement) == branch(c, displacement, contains(c.status, Zero))

bit(c, addr) ==
    LET value == Read8(c.memory, addr)
    IN [c EXCEPT !.status =
            set_negative(set_overflow(set_zero(c.status, BitAnd(c.accumulator, value)),
                                      BitAnd(value, 64) # 0), value)]

bmi(c, displacement) == branch(c, displacement, contains(c.status, Negative))

bne(c, displacement) == branch(c, displacement, ~contains(c.status, Zero))

bpl(c, displacement) == branch(c, displacement, ~contains(c.status, Negative))

\* a brk that sets the break flags before it pushes the status
brk_pushes_status_with_break(c) ==
    LET p1 == stack_push_u16(c, c.program_counter)
        st == Status_set(Status_set(p1.status, Break, TRUE), Break2, TRUE)
        p2 == stack_push_u8(p1, st)
    IN IF Panicked(p1) THEN p1
       ELSE [p2 EXCEPT !.program_counter = Read16(p2.memory, INTERRUPT), !.status = st]

\* a brk that takes the program counter from the reset vector
brk_from_reset_vector(c) ==
    LET p1 == stack_push_u16(c, c.program_counter)
        p2 == stack_push_u8(p1, p1.status)
    IN IF Panicked(p1) THEN p1
       ELSE [p2 EXCEPT !.program_counter = Read16(p2.memory, RESET),
                       !.status = Status_set(Status_set(p2.status, Break, TRUE),
                                             Break2, TRUE)]

\* CPU::brk
brk(c) ==
    LET p1 == stack_push_u16(c, c.program_counter)
        p2 == stack_push_u8(p1, p1.status)
    IN IF Panicked(p1) THEN p1
       ELSE [p2 EXCEPT !.program_counter = Read16(p2.memory, INTERRUPT),
                       !.status = Status_set(Status_set(p2.status, Break, TRUE),
                                             Break2, TRUE)]

bvc(c, displacement) == branch(c, displacement, ~contains(c.status, Overflow))

bvs(c, displacement) == branch(c, displacement, contains(c.status, Overflow))

clc(c) == [c EXCEPT !.status = Status_set(c.status, Carry, FALSE)]

cld(c) == [c EXCEPT !.status = Status_set(c.status, Decimal, FALSE)]

cli(c) == [c EXCEPT !.status = Status_set(c.status, InterruptDisable, FALSE)]

\* a clv that clears the negative flag along with the overflow flag
clv_clears_negative_too(c) ==
    [c EXCEPT !.status = Status_set(Status_set(c.status, Overflow, FALSE), Negative, FALSE)]

clv(c) == [c EXCEPT !.status = Status_set(c.status, Overflow, FALSE)]

cmp(c, addr) == compare(c, c.accumulator, addr)

cpx(c, addr) == compare(c, c.index_x, addr)

cpy(c, addr) == compare(c, c.index_y, addr)

eor(c, addr) == set_accumulator(c, BitXor(c.accumulator, Read8(c.memory, addr)))

inx(c) == set_index_x(c, (c.index_x + 1) % 256)

jsr(c, addr) ==
    LET n == add_program_counter(c, 1)
    IN IF Panicked(n) THEN n
       ELSE [stack_push_u16(c, n.program_counter) EXCEPT !.program_counter = addr]

lda(c, addr) == set_accumulator(c, Read8(c.memory, addr))

ora(c, addr) == set_accumulator(c, BitOr(c.accumulator, Read8(c.memory, addr)))

rts(c) ==
    LET r == stack_pop_u16(c)
    IN IF Panicked(r.c) THEN r.c ELSE [r.c EXCEPT !.program_counter = r.val]

\* a subtraction that adds the two's complement of the operand
sbc_adds_negation(c, addr) ==
    LET neg == (256 - Read8(c.memory, addr)) % 256
    IN add_to_accumulator(c, neg)

sbc(c, addr) ==
    LET neg == (256 - Read8(c.memory, addr)) % 256
    IN add_to_accumulator(c, (neg + 255) % 256)

sec(c) == [c EXCEPT !.status = Status_set(c.status, Carry, TRUE)]

sed(c) == [c EXCEPT !.status = Status_set(c.status, Decimal, TRUE)]

sei(c) == [c EXCEPT !.status = Status_set(c.status, InterruptDisable, TRUE)]

sta(c, addr) == [c EXCEPT !.memory = Write8(c.memory, addr, c.accumulator)]

\* a store of the accumulator where index_x is asked for
stx_stores_accumulator(c, addr) ==
    [c EXCEPT !.memory = Write8(c.memory, addr, c.accumulator)]

stx(c, addr) == [c EXCEPT !.memory = Write8(c.memory, addr, c.index_x)]

sty(c, addr) == [c EXCEPT !.memory = Write8(c.memory, addr, c.index_y)]

tax(c) == set_index_x(c, c.accumulator)

tay(c) == set_index_y(c, c.accumulator)

tsx(c) == set_index_x(c, c.stack_pointer)

txa(c) == set_accumulator(c, c.index_x)

txs(c) == [c EXCEPT !.stack_pointer = c.index_x]

tya(c) == set_accumulator(c, c.index_y)

-----------------------------------------------------------------------------
(* mod.rs : CPU::run, one iteration of its loop *)

\* a with_operand that takes address 0 for no address
MissingOperand_or_zero(addr) == addr = None \/ addr = 0

\* CPU::with_operand: addr.expect panics
MissingOperand(addr) == addr = None

\* the arms of `match opcode.instruction` that are todo!()
Unimplemented ==
    {"DEC", "DEX", "DEY", "INC", "INY", "JMP", "LDX", "LDY", "LSR", "NOP", "PHA",
     "PHP", "PLA", "PLP", "ROL", "ROR", "RTI"}

\* the arms of `match opcode.instruction` that go through with_operand
WithOperand ==
    {"ADC", "AND", "BCC", "BCS", "BEQ", "BIT", "BMI", "BNE", "BPL", "BVC", "BVS",
     "CMP", "CPX", "CPY", "EOR", "JSR", "LDA", "ORA", "SBC", "STA", "STX", "STY"}

\* `match opcode.instruction { ... }`
execute(c, i, addr) ==
    IF i \in Unimplemented THEN Panic(c, PanicTodo)
    ELSE IF i \in WithOperand /\ MissingOperand(addr) THEN Panic(c, PanicMissingOperand)
    ELSE CASE i = "ADC" -> adc(c, addr)
           [] i = "AND" -> and(c, addr)
           [] i = "ASL" -> asl(c, addr)
           [] i = "BCC" -> bcc(c, addr)
           [] i = "BCS" -> bcs(c, addr)
           [] i = "BEQ" -> beq(c, addr)
           [] i = "BIT" -> bit(c, addr)
           [] i = "BMI" -> bmi(c, addr)
           [] i = "BNE" -> bne(c, addr)
           [] i = "BPL" -> bpl(c, addr)
           [] i = "BRK" -> brk(c)
           [] i = "BVC" -> bvc(c, addr)
           [] i = "BVS" -> bvs(c, addr)
           [] i = "CLC" -> clc(c)
           [] i = "CLD" -> cld(c)
           [] i = "CLI" -> cli(c)
           [] i = "CLV" -> clv(c)
           [] i = "CMP" -> cmp(c, addr)
           [] i = "CPX" -> cpx(c, addr)
           [] i = "CPY" -> cpy(c, addr)
           [] i = "EOR" -> eor(c, addr)
           [] i = "INX" -> inx(c)
           [] i = "JSR" -> jsr(c, addr)
           [] i = "LDA" -> lda(c, addr)
           [] i = "ORA" -> ora(c, addr)
           [] i = "RTS" -> rts(c)
           [] i = "SBC" -> sbc(c, addr)
           [] i = "SEC" -> sec(c)
           [] i = "SED" -> sed(c)
           [] i = "SEI" -> sei(c)
           [] i = "STA" -> sta(c, addr)
           [] i = "STX" -> stx(c, addr)
           [] i = "STY" -> sty(c, addr)
           [] i = "TAX" -> tax(c)
           [] i = "TAY" -> tay(c)
           [] i = "TSX" -> tsx(c)
           [] i = "TXA" -> txa(c)
           [] i = "TXS" -> txs(c)
           [] i = "TYA" -> tya(c)

\* a loop that passes over a byte it finds no table entry for
run_iteration_skips_unknown(c) ==
    LET f == read_program_counter_u8(c)
        known == f.val \in DOMAIN OPCODES_MAP
        opcode == OPCODES_MAP[f.val]
        r == get_operand_address(f.c, opcode.mode)
        out(n, i, a) == [c |-> n, code |-> f.val, instruction |-> i, addr |-> a]
    IN IF Panicked(f.c) THEN out(f.c, "none", None)
       ELSE IF ~known THEN out(f.c, "none", None)
       ELSE IF Panicked(r.c) THEN out(r.c, opcode.instruction, None)
       ELSE out(execute(r.c, opcode.instruction, r.addr), opcode.instruction, r.addr)

\* the body of the loop of CPU::run up to the test that ends the loop:
\* the state it leaves, with what it fetched, decoded and resolved
run_iteration(c) ==
    LET f == read_program_counter_u8(c)
        known == f.val \in DOMAIN OPCODES_MAP
        opcode == OPCODES_MAP[f.val]
        r == get_operand_address(f.c, opcode.mode)
        out(n, i, a) == [c |-> n, code |-> f.val, instruction |-> i, addr |-> a]
    IN IF Panicked(f.c) THEN out(f.c, "none", None)
       ELSE IF ~known THEN out(Panic(f.c, PanicUnrecognized), "none", None)
       ELSE IF Panicked(r.c) THEN out(r.c, opcode.instruction, None)
       ELSE out(execute(r.c, opcode.instruction, r.addr), opcode.instruction, r.addr)

\* `if self.program_counter == 0 { return; }`
run_returns(c) == c.program_counter = 0

-----------------------------------------------------------------------------
(* The callers' inputs *)

\* program images given to load
Programs ==
    {
      <<0>>,                         \* BRK
      <<169, 5, 0>>,                 \* LDA #$05; BRK
      <<169, 255, 170, 232, 232, 0>>,\* LDA #$FF; TAX; INX; INX; BRK
      <<169, 128, 141, 255, 255, 0>>,\* LDA #$80; STA $FFFF; BRK (vector $8000)
      <<169, 255, 170, 154, 0>>,     \* LDA #$FF; TAX; TXS; BRK
      <<56, 248, 0>>,                \* SEC; SED; BRK
      <<32, 5, 128, 0, 0, 96>>,      \* JSR $8005; BRK; BRK; RTS
      <<32, 5, 6, 0, 0, 96>>,        \* JSR $0605; BRK; BRK; RTS
      <<32, 0, 0>>,                  \* JSR $0000
      <<96>>,                        \* RTS
      <<230, 16, 0>>,                \* INC $10; BRK
      <<234, 0>>,                    \* NOP; BRK
      <<74, 0>>,                     \* LSR A; BRK
      <<72, 0>>,                     \* PHA; BRK
      <<8, 0>>,                      \* PHP; BRK
      <<104, 0>>,                    \* PLA; BRK
      <<40, 0>>,                     \* PLP; BRK
      <<64, 0>>,                     \* RTI; BRK
      <<169, 170, 42, 0>>,           \* LDA #$AA; ROL A; BRK
      <<169, 85, 106, 0>>,           \* LDA #$55; ROR A; BRK
      <<162, 5, 0>>,                 \* LDX #$05; BRK
      <<160, 5, 0>>,                 \* LDY #$05; BRK
      <<200, 200, 0>>,               \* INY; INY; BRK
      <<202, 0>>,                    \* DEX; BRK
      <<136, 0>>,                    \* DEY; BRK
      <<206, 16, 16, 0>>,            \* DEC $1010; BRK
      <<76, 5, 128, 0>>,             \* JMP $8005; BRK
      <<108, 32, 1, 0>>,             \* JMP ($0120); BRK
      <<165, 16, 0>>,                \* LDA $10; BRK
      <<24, 216, 88, 184, 0>>,       \* CLC; CLD; CLI; CLV; BRK
      <<120, 0>>,                    \* SEI; BRK
      <<32, 255, 255>>,              \* JSR $FFFF
      <<173, 16, 0, 0>>,             \* LDA $0010; BRK
      <<180, 16, 0>>                 \* LDY $10,X; BRK
    }
    \cup { <<op, d, 0>> : op \in {144, 176, 240, 48, 208, 16, 80, 112},
                          d \in {2, 253} }

\* addresses and bytes the caller writes to memory before a run
SetupAddrs == {16, 65534, 65535}

SetupBytes == {1, 128, 255}

\* values the caller assigns to the public register fields before a run
SetupStatus == {0, 255}

SetupStack == {0, 254, 255}

-----------------------------------------------------------------------------
(* The state machine *)

NoBefore ==
    [op |-> "none", instruction |-> "none", addr |-> None, val |-> 0, sp |-> 0, pc |-> 0]

Did(op, out, val) ==
    [op |-> op, code |-> out.code, instruction |-> out.instruction,
     addr |-> out.addr, val |-> val, pre |-> Self,
     before |-> [op |-> last.op, instruction |-> last.instruction,
                 addr |-> last.addr, val |-> last.val,
                 sp |-> last.pre.stack_pointer, pc |-> last.pre.program_counter]]

NoStep == [code |-> 0, instruction |-> "none", addr |-> None]

SetSelf(c) ==
    /\ accumulator' = c.accumulator
    /\ index_x' = c.index_x
    /\ index_y' = c.index_y
    /\ program_counter' = c.program_counter
    /\ stack_pointer' = c.stack_pointer
    /\ status' = c.status
    /\ memory' = c.memory
    /\ mode' = c.mode

\* CPU::new() in either build
Init ==
    /\ accumulator = 0
    /\ index_x = 0
    /\ index_y = 0
    /\ program_counter = 0
    /\ stack_pointer = StackPointer_default
    /\ status = Status_default
    /\ memory = Memory_default
    /\ mode = Mode_default
    /\ overflow_checks \in BOOLEAN
    /\ phase = "New"
    /\ panic = NoPanic
    /\ steps = 0
    /\ setups = 0
    /\ last = [op |-> "new", code |-> 0, instruction |-> "none", addr |-> None,
               val |-> 0, before |-> NoBefore,
               pre |-> [accumulator |-> 0, index_x |-> 0, index_y |-> 0,
                        program_counter |-> 0, stack_pointer |-> StackPointer_default,
                        status |-> Status_default, memory |-> Memory_default,
                        mode |-> Mode_default, panic |-> NoPanic]]

\* the caller assigns the public field mode
SetMode ==
    /\ phase = "New"
    /\ last.op = "new"
    /\ \E m \in Modes \ {mode} :
          SetSelf([Self EXCEPT !.mode = m])
    /\ last' = Did("set_mode", NoStep, 0)
    /\ UNCHANGED <<overflow_checks, phase, panic, steps, setups>>

\* Memory::write::<u8> by a caller inside the crate, before load or before run
MemoryWrite ==
    /\ phase \in {"New", "Ready"}
    /\ setups < MaxSetup
    /\ \E addr \in SetupAddrs, val \in SetupBytes :
          /\ SetSelf([Self EXCEPT !.memory = Write8(memory, addr, val)])
          /\ last' = [Did("memory_write", NoStep, val) EXCEPT !.addr = addr]
    /\ setups' = setups + 1
    /\ UNCHANGED <<overflow_checks, phase, panic, steps>>

\* CPU::load
Load ==
    /\ phase = "New"
    /\ \E program \in Programs :
          /\ SetSelf([Self EXCEPT !.memory = Memory_load(memory, program, mode)])
          /\ last' = Did("load", NoStep, program)
    /\ phase' = "Loaded"
    /\ UNCHANGED <<overflow_checks, panic, steps, setups>>

\* a reset that keeps the status register
reset_keeps_status(c) ==
    [accumulator |-> 0, index_x |-> 0, index_y |-> 0,
     program_counter |-> Read16(c.memory, RESET),
     stack_pointer |-> StackPointer_default, status |-> c.status,
     memory |-> c.memory, mode |-> Mode_default, panic |-> NoPanic]

\* a reset that starts from an empty memory
reset_clears_memory(c) ==
    [accumulator |-> 0, index_x |-> 0, index_y |-> 0,
     program_counter |-> Read16(c.memory, RESET),
     stack_pointer |-> StackPointer_default, status |-> Status_default,
     memory |-> Memory_default, mode |-> Mode_default, panic |-> NoPanic]

\* CPU::reset
reset(c) ==
    [accumulator |-> 0, index_x |-> 0, index_y |-> 0,
     program_counter |-> Read16(c.memory, RESET),
     stack_pointer |-> StackPointer_default, status |-> Status_default,
     memory |-> c.memory, mode |-> Mode_default, panic |-> NoPanic]

Reset ==
    /\ phase = "Loaded"
    /\ SetSelf(reset(Self))
    /\ phase' = "Ready"
    /\ last' = Did("reset", NoStep, 0)
    /\ UNCHANGED <<overflow_checks, panic, steps, setups>>

\* the caller assigns a public register field, before load or between reset
\* and run
SetRegister ==
    /\ phase \in {"New", "Ready"}
    /\ setups < MaxSetup
    /\ \/ \E v \in SetupBytes : SetSelf([Self EXCEPT !.accumulator = v])
       \/ \E v \in SetupBytes : SetSelf([Self EXCEPT !.index_x = v])
       \/ \E v \in SetupBytes : SetSelf([Self EXCEPT !.index_y = v])
       \/ \E v \in SetupStack : SetSelf([Self EXCEPT !.stack_pointer = v])
       \/ \E v \in SetupStatus : SetSelf([Self EXCEPT !.status = v])
    /\ setups' = setups + 1
    /\ last' = Did("set_register", NoStep, 0)
    /\ UNCHANGED <<overflow_checks, phase, panic, steps>>

\* CPU::run is entered
Run ==
    /\ phase = "Ready"
    /\ phase' = "Running"
    /\ last' = Did("run", NoStep, 0)
    /\ UNCHANGED <<accumulator, index_x, index_y, program_counter, stack_pointer,
                   status, memory, mode, overflow_checks, panic, steps, setups>>

\* one iteration of the loop of CPU::run
Step ==
    /\ phase = "Running"
    /\ steps < MaxSteps
    /\ LET out == run_iteration(Self)
       IN /\ SetSelf(out.c)
          /\ panic' = out.c.panic
          /\ phase' = IF Panicked(out.c) THEN "Aborted"
                      ELSE IF run_returns(out.c) THEN "Halted"
                      ELSE "Running"
          /\ last' = Did("step", out, 0)
    /\ steps' = steps + 1
    /\ UNCHANGED <<overflow_checks, setups>>

Next ==
    \/ SetMode
    \/ MemoryWrite
    \/ Load
    \/ Reset
    \/ SetRegister
    \/ Run
    \/ Step

Spec == Init /\ [][Next]_vars

-----------------------------------------------------------------------------
(* The stack on its own: stack_push and stack_pop called directly, as the   *)
(* crate's tests call them, from every position of the stack pointer.       *)

StackBytes == {0, 1, 128, 255}

StackWords == {0, 1, 255, 256, 32768, 40960, 65535}

\* a new CPU whose stack pointer has been moved (CPU::txs stores any byte)
InitStack ==
    /\ accumulator = 0
    /\ index_x = 0
    /\ index_y = 0
    /\ program_counter = 0
    /\ stack_pointer \in U8
    /\ status = Status_default
    /\ memory = Memory_default
    /\ mode = Mode_default
    /\ overflow_checks \in BOOLEAN
    /\ phase = "Stack"
    /\ panic = NoPanic
    /\ steps = 0
    /\ setups = 0
    /\ last = [op |-> "new", code |-> 0, instruction |-> "none", addr |-> None,
               val |-> 0, before |-> NoBefore,
               pre |-> [accumulator |-> 0, index_x |-> 0, index_y |-> 0,
                        program_counter |-> 0, stack_pointer |-> stack_pointer,
                        status |-> Status_default, memory |-> Memory_default,
                        mode |-> Mode_default, panic |-> NoPanic]]

StackCall(op, c, val) ==
    /\ SetSelf(c)
    /\ panic' = c.panic
    /\ phase' = IF Panicked(c) THEN "Aborted" ELSE phase
    /\ last' = Did(op, NoStep, val)
    /\ steps' = steps + 1
    /\ UNCHANGED <<overflow_checks, setups>>

StackPushU8 ==
    /\ phase = "Stack"
    /\ steps < MaxStackOps
    /\ \E v \in StackBytes : StackCall("stack_push_u8", stack_push_u8(Self, v), v)

StackPushU16 ==
    /\ phase = "Stack"
    /\ steps < MaxStackOps
    /\ \E v \in StackWords : StackCall("stack_push_u16", stack_push_u16(Self, v), v)

StackPopU8 ==
    /\ phase = "Stack"
    /\ steps < MaxStackOps
    /\ LET r == stack_pop_u8(Self) IN StackCall("stack_pop_u8", r.c, r.val)

StackPopU16 ==
    /\ phase = "Stack"
    /\ steps < MaxStackOps
    /\ LET r == stack_pop_u16(Self) IN StackCall("stack_pop_u16", r.c, r.val)

NextStack ==
    \/ StackPushU8
    \/ StackPushU16
    \/ StackPopU8
    \/ StackPopU16

SpecStack == InitStack /\ [][NextStack]_vars

-----------------------------------------------------------------------------
(* The instruction handlers on their own: one handler of `impl Instructions *)
(* for CPU` called directly on a CPU whose public fields and memory the     *)
(* caller has set, as the crate's tests do.                                 *)

\* the address of the operand byte, and of a byte next to it the caller set
OperandAddr == 16

GuardAddr == 17

GuardByte == 165

\* the status the caller assigns: the default, or every flag set
CallStatus == {Status_default, 255}

\* how far the operand byte is from the accumulator (mod 256): equal, next to
\* it on either side, and across the sign bit
CallOffsets == {0, 1, 127, 128, 129, 255}

\* a CPU with any byte in the accumulator, the index registers holding bytes
\* different from it and from each other, and at the operand address the byte
\* at one of the given offsets from the accumulator
InitHandlers(offsets) ==
    /\ accumulator \in U8
    /\ index_x = (accumulator + 85) % 256
    /\ index_y = (accumulator + 170) % 256
    /\ program_counter = 0
    /\ stack_pointer = StackPointer_default
    /\ status \in CallStatus
    /\ memory \in {Write8(Write8(Memory_default, GuardAddr, GuardByte), OperandAddr,
                          (accumulator + d) % 256) : d \in offsets}
    /\ mode = Mode_default
    /\ overflow_checks \in BOOLEAN
    /\ phase = "Call"
    /\ panic = NoPanic
    /\ steps = 0
    /\ setups = 0
    /\ last = [op |-> "new", code |-> 0, instruction |-> "none", addr |-> None,
               val |-> 0, before |-> NoBefore, pre |-> Self]

InitCall == InitHandlers(CallOffsets)

\* the handler named i is called with addr and returns
Call(i, addr, c) ==
    /\ phase = "Call"
    /\ SetSelf(c)
    /\ panic' = c.panic
    /\ phase' = "Called"
    /\ last' = Did("call", [code |-> 0, instruction |-> i, addr |-> addr], 0)
    /\ steps' = steps + 1
    /\ UNCHANGED <<overflow_checks, setups>>

CallCmp == Call("CMP", OperandAddr, cmp(Self, OperandAddr))

CallCpx == Call("CPX", OperandAddr, cpx(Self, OperandAddr))

CallCpy == Call("CPY", OperandAddr, cpy(Self, OperandAddr))

CallAsl == \E addr \in {None, OperandAddr} : Call("ASL", addr, asl(Self, addr))

CallLda == Call("LDA", OperandAddr, lda(Self, OperandAddr))

CallSta == Call("STA", OperandAddr, sta(Self, OperandAddr))

CallStx == Call("STX", OperandAddr, stx(Self, OperandAddr))

CallSty == Call("STY", OperandAddr, sty(Self, OperandAddr))

NextCall ==
    \/ CallCmp
    \/ CallCpx
    \/ CallCpy
    \/ CallAsl
    \/ CallLda
    \/ CallSta
    \/ CallStx
    \/ CallSty

SpecCall == InitCall /\ [][NextCall]_vars

-----------------------------------------------------------------------------
(* The arithmetic handlers on their own, on every accumulator and operand. *)

\* every operand byte with every accumulator
InitArith == InitHandlers(U8)

CallAdc == Call("ADC", OperandAddr, adc(Self, OperandAddr))

CallSbc == Call("SBC", OperandAddr, sbc(Self, OperandAddr))

NextArith ==
    \/ CallAdc
    \/ CallSbc

SpecArith == InitArith /\ [][NextArith]_vars

-----------------------------------------------------------------------------
(* Operand resolution: run on a two-byte instruction whose zero-page pointer, *)
(* index register and target byte the caller has set after load and reset,    *)
(* as test_0xb1_lda_indirect_y does.                                          *)

\* LDA (zp),Y and STA (zp),Y
\* LDA (zp),Y  STA (zp),Y  LDA (zp,X)  LDA zp,X  STX zp,Y  LDA abs,X  LDA abs,Y
OperandOpcodes == {177, 145, 161, 181, 150, 189, 185}

\* the zero-page operand of the instruction
OperandPointers == {32, 255}

\* the 16-bit value stored at the pointer
OperandBases == {512, 47868, 65528}

\* the index register
OperandIndexes == {0, 16, 255}

\* the byte at the effective address, and the accumulator
OperandTarget == 66

OperandAccumulator == 55

\* a byte the caller left at 0x0100
PageOneByte == 18

\* the program of one instruction and a BRK: the operand is the zero-page byte
\* z, or the word base for a three-byte instruction
OperandProgram(op, z, base) ==
    IF OPCODES_MAP[op].len = 3
    THEN <<op, base % 256, base \div 256, 0>>
    ELSE <<op, z, 0>>

\* where the caller stores the pointer and the byte to find
OperandPointerAt(op, z, x) ==
    IF OPCODES_MAP[op].mode = "IndirectX" THEN (z + x) % 256 ELSE z

OperandTargetAt(op, z, base, x, y) ==
    LET md == OPCODES_MAP[op].mode
    IN CASE md = "IndirectX" -> base
         [] md = "IndirectY" -> (base + y) % 65536
         [] md = "ZeroPageX" -> (z + x) % 256
         [] md = "ZeroPageY" -> (z + y) % 256
         [] md = "AbsoluteX" -> (base + x) % 65536
         [] md = "AbsoluteY" -> (base + y) % 65536

\* load(program), reset, then the caller's writes and assignments
InitOperand ==
    /\ accumulator = OperandAccumulator
    /\ index_x \in OperandIndexes
    /\ index_y \in OperandIndexes
    /\ stack_pointer = StackPointer_default
    /\ status = Status_default
    /\ mode = Mode_default
    /\ \E op \in OperandOpcodes, z \in OperandPointers, base \in OperandBases :
          LET loaded == Memory_load(Memory_default, OperandProgram(op, z, base), Mode_default)
              ptr == OperandPointerAt(op, z, index_x)
              m1 == Write8(loaded, 256, PageOneByte)
              m2 == Write8(m1, ptr, base % 256)
              m3 == Write8(m2, (ptr + 1) % 256, base \div 256)
          IN /\ memory = Write8(m3, OperandTargetAt(op, z, base, index_x, index_y), OperandTarget)
             /\ program_counter = Read16(loaded, RESET)
    /\ overflow_checks \in BOOLEAN
    /\ phase = "Ready"
    /\ panic = NoPanic
    /\ steps = 0
    /\ setups = 0
    /\ last = [op |-> "setup", code |-> 0, instruction |-> "none", addr |-> None,
               val |-> 0, before |-> NoBefore, pre |-> Self]

NextOperand ==
    \/ Run
    \/ Step

SpecOperand == InitOperand /\ [][NextOperand]_vars

-----------------------------------------------------------------------------
(* The memory on its own: 16-bit writes and reads through Memory::write and *)
(* Memory::read, as the tests of memory.rs call them.                        *)

\* the addresses written and read: both ends of the memory, a page boundary
MemoryAddrs == {0, 255, 4096, 65533, 65534, 65535}

\* the 16-bit values written
MemoryWords == {0, 1, 256, 4660, 47868, 65535}

\* the memory before: empty, or with a byte at and around every address used
MemoryFilled ==
    [a \in {0, 1, 2, 254, 255, 256, 257, 4095, 4096, 4097, 4098,
            65532, 65533, 65534, 65535} |-> 170]

InitMemory ==
    /\ accumulator = 0
    /\ index_x = 0
    /\ index_y = 0
    /\ program_counter = 0
    /\ stack_pointer = StackPointer_default
    /\ status = Status_default
    /\ memory \in {Memory_default, MemoryFilled}
    /\ mode = Mode_default
    /\ overflow_checks \in BOOLEAN
    /\ phase = "Memory"
    /\ panic = NoPanic
    /\ steps = 0
    /\ setups = 0
    /\ last = [op |-> "new", code |-> 0, instruction |-> "none", addr |-> None,
               val |-> 0, before |-> NoBefore, pre |-> Self]

MemoryCall(op, addr, val, m, failed) ==
    /\ phase = "Memory"
    /\ steps < MaxMemoryOps
    /\ memory' = m
    /\ panic' = IF failed THEN PanicBounds ELSE NoPanic
    /\ phase' = IF failed THEN "Aborted" ELSE phase
    /\ last' = [Did(op, NoStep, val) EXCEPT !.addr = addr]
    /\ steps' = steps + 1
    /\ UNCHANGED <<accumulator, index_x, index_y, program_counter, stack_pointer,
                   status, mode, overflow_checks, setups>>

\* Memory::write::<u16>
MemoryWrite16 ==
    \E addr \in MemoryAddrs, val \in MemoryWords :
        IF InRange16(addr)
        THEN MemoryCall("write_u16", addr, val, Write16(memory, addr, val), FALSE)
        ELSE MemoryCall("write_u16", addr, val, memory, TRUE)

\* Memory::read::<u16>
MemoryRead16 ==
    \E addr \in MemoryAddrs :
        IF InRange16(addr)
        THEN MemoryCall("read_u16", addr, Read16(memory, addr), memory, FALSE)
        ELSE MemoryCall("read_u16", addr, 0, memory, TRUE)

NextMemory ==
    \/ MemoryWrite16
    \/ MemoryRead16

SpecMemory == InitMemory /\ [][NextMemory]_vars

-----------------------------------------------------------------------------
(* The status register on its own: one setter of `impl Status` called on    *)
(* each status byte, as the tests of status.rs call them.                   *)

\* the 16-bit sums given to set_carry
StatusSums == {0, 1, 254, 255, 256, 257, 510, 511, 65535}

InitStatus ==
    /\ accumulator = 0
    /\ index_x = 0
    /\ index_y = 0
    /\ program_counter = 0
    /\ stack_pointer = StackPointer_default
    /\ status \in U8
    /\ memory = Memory_default
    /\ mode = Mode_default
    /\ overflow_checks \in BOOLEAN
    /\ phase = "Status"
    /\ panic = NoPanic
    /\ steps = 0
    /\ setups = 0
    /\ last = [op |-> "new", code |-> 0, instruction |-> "none", addr |-> None,
               val |-> 0, before |-> NoBefore, pre |-> Self]

\* the setter named op is called with val (for set, on the flag) and returns
StatusCall(op, flag, val, st) ==
    /\ phase = "Status"
    /\ status' = st
    /\ phase' = "Called"
    /\ last' = [Did(op, NoStep, val) EXCEPT !.code = flag]
    /\ steps' = steps + 1
    /\ UNCHANGED <<accumulator, index_x, index_y, program_counter, stack_pointer,
                   memory, mode, overflow_checks, panic, setups>>

StatusSet ==
    \E flag \in Flags, value \in BOOLEAN :
        StatusCall("set", flag, IF value THEN 1 ELSE 0, Status_set(status, flag, value))

StatusSetCarry ==
    \E result \in StatusSums : StatusCall("set_carry", Carry, result, set_carry(status, result))

StatusSetNegative ==
    \E result \in U8 :
        StatusCall("set_negative", Negative, result, set_negative(status, result))

StatusSetOverflow ==
    \E result \in BOOLEAN :
        StatusCall("set_overflow", Overflow, IF result THEN 1 ELSE 0,
                   set_overflow(status, result))

StatusSetZero ==
    \E result \in U8 : StatusCall("set_zero", Zero, result, set_zero(status, result))

NextStatus ==
    \/ StatusSet
    \/ StatusSetCarry
    \/ StatusSetNegative
    \/ StatusSetOverflow
    \/ StatusSetZero

SpecStatus == InitStatus /\ [][NextStatus]_vars

-----------------------------------------------------------------------------
(* Properties *)

\* the last thing done was an iteration of run that decoded instruction i
Decoded(i) == last.op = "step" /\ last.instruction = i

\* ... and executed it to the end
Executed(i) == Decoded(i) /\ panic = NoPanic

\* the bytes in which two memories differ
Changed(m1, m2) == {a \in (DOMAIN m1) \cup (DOMAIN m2) : Read8(m1, a) # Read8(m2, a)}

BranchInstructions == {"BCC", "BCS", "BEQ", "BMI", "BNE", "BPL", "BVC", "BVS"}

\* the status condition of a branch instruction
BranchCondition(i, st) ==
    CASE i = "BCC" -> ~contains(st, Carry)
      [] i = "BCS" -> contains(st, Carry)
      [] i = "BEQ" -> contains(st, Zero)
      [] i = "BNE" -> ~contains(st, Zero)
      [] i = "BMI" -> contains(st, Negative)
      [] i = "BPL" -> ~contains(st, Negative)
      [] i = "BVC" -> ~contains(st, Overflow)
      [] i = "BVS" -> contains(st, Overflow)

\* C1: whenever run executes a BRK instruction, run returns right after it,
\* whatever the interrupt vector at 0xFFFE-0xFFFF holds; nothing more is fetched.
C1_BrkEndsRun == Executed("BRK") => phase = "Halted"

\* C2: run never returns after an instruction other than BRK; a non-BRK
\* instruction that leaves program_counter at 0 is followed by the fetch at 0.
C2_OnlyBrkEndsRun == (phase = "Halted" /\ last.op = "step") => last.instruction = "BRK"

\* C3: every decoded instruction applies its transition rule and the run goes
\* on; no decoded instruction aborts the run as unimplemented.
C3_NoInstructionUnimplemented == last.op = "step" => panic # PanicTodo

\* the codes the tests run for LSR, PHA, PHP, PLA, PLP and RTI
TestedCodes == {74, 72, 8, 104, 40, 64}

\* C4: the opcode table has at least one entry for each of the 56 mnemonics,
\* so that a fetched 0x4A, 0x48, 0x08, 0x68, 0x28 or 0x40 is decoded, not rejected.
C4_TableCoversEveryMnemonic ==
    (last.op = "step" /\ last.code \in TestedCodes) =>
        /\ \A i \in Instructions :
               \E code \in DOMAIN OPCODES_MAP : OPCODES_MAP[code].instruction = i
        /\ last.code \in DOMAIN OPCODES_MAP
        /\ panic # PanicUnrecognized

\* C5: a branch instruction at address p with signed displacement d leaves
\* program_counter at (p + 2 + d) mod 65536 when its condition holds and at
\* p + 2 otherwise, and changes no other register, flag or memory byte.
C5_BranchTarget ==
    (last.op = "step" /\ last.instruction \in BranchInstructions) =>
        LET p == last.pre.program_counter
            d == AsI8(Read8(last.pre.memory, (p + 1) % 65536))
        IN /\ panic = NoPanic
           /\ program_counter =
                  IF BranchCondition(last.instruction, last.pre.status)
                  THEN (p + 2 + d) % 65536
                  ELSE (p + 2) % 65536
           /\ accumulator = last.pre.accumulator
           /\ index_x = last.pre.index_x
           /\ index_y = last.pre.index_y
           /\ stack_pointer = last.pre.stack_pointer
           /\ status = last.pre.status
           /\ memory = last.pre.memory

\* C6: an RTS executed with the stack as the JSR at address p left it resumes
\* at p + 3, with the stack pointer at its value before the JSR.
C6_JsrRtsResumesAfterJsr ==
    (Executed("RTS") /\ last.before.op = "step" /\ last.before.instruction = "JSR") =>
        /\ program_counter = (last.before.pc + 3) % 65536
        /\ stack_pointer = last.before.sp

\* C7: BRK at address p with stack pointer s pushes the 16-bit p + 1 and then
\* the status it found; popping 8 bits afterwards returns that status, popping
\* 16 bits next returns p + 1, and the stack pointer is back at s.
C7_BrkPushesCounterThenStatus ==
    Executed("BRK") =>
        LET first == stack_pop_u8(Self)
            second == stack_pop_u16(first.c)
        IN /\ first.val = last.pre.status
           /\ ~Panicked(second.c)
           /\ second.val = (last.pre.program_counter + 1) % 65536
           /\ second.c.stack_pointer = last.pre.stack_pointer

\* C7 witness: a BRK executed with the stack pointer at 0xFF, where the pushes wrap
C7_Witness == Executed("BRK") /\ last.pre.stack_pointer = 255

\* C8: after BRK, program_counter is the little-endian word at 0xFFFE-0xFFFF,
\* Break and Break2 are set, and the other six status bits, the accumulator
\* and the index registers are unchanged.
C8_BrkLoadsVectorSetsBreak ==
    Executed("BRK") =>
        /\ program_counter = Read8(memory, 65534) + 256 * Read8(memory, 65535)
        /\ contains(status, Break) /\ contains(status, Break2)
        /\ \A f \in Flags \ {Break, Break2} : contains(status, f) <=> contains(last.pre.status, f)
        /\ accumulator = last.pre.accumulator
        /\ index_x = last.pre.index_x
        /\ index_y = last.pre.index_y

\* C8 witness: a BRK executed with a non-zero interrupt vector
C8_Witness == Executed("BRK") /\ program_counter # 0

\* the stack page
StackPage == 256..511

\* C9: every byte a stack push or pop touches (in BRK, JSR, RTS) is in the stack
\* page 0x0100-0x01FF, at 0x0100 + stack_pointer.
C9_StackInStackPage ==
    (last.op = "step" /\ last.instruction \in {"BRK", "JSR", "RTS"} /\ panic = NoPanic) =>
        /\ StackAddress(last.pre.stack_pointer) = 256 + last.pre.stack_pointer
        /\ Changed(last.pre.memory, memory) \subseteq StackPage

\* C10: from every stack pointer s, whatever the width, a push of v followed at
\* once by a pop of the same width returns v and leaves the stack pointer at s.
C10_PushPopInverse ==
    /\ (last.op = "stack_pop_u8" /\ last.before.op = "stack_push_u8") =>
           /\ panic = NoPanic
           /\ last.val = last.before.val
           /\ stack_pointer = last.before.sp
    /\ (last.op = "stack_pop_u16" /\ last.before.op = "stack_push_u16") =>
           /\ panic = NoPanic
           /\ last.val = last.before.val
           /\ stack_pointer = last.before.sp

\* C10 witness: a 16-bit push at 0xFF, where the advance wraps, popped again
C10_Witness ==
    /\ last.op = "stack_pop_u16"
    /\ last.before.op = "stack_push_u16"
    /\ last.before.sp = 255
    /\ last.before.val = 40960

\* the last thing done was a direct call of the handler of instruction i
Called(i) == last.op = "call" /\ last.instruction = i

\* the byte at the operand address, and the carry, before the last operation
OperandBefore == Read8(last.pre.memory, last.addr)

CarryBefore == IF contains(last.pre.status, Carry) THEN 1 ELSE 0

\* C11: for every accumulator a, operand byte m and carry-in c, ADC leaves
\* accumulator = (a + m + c) mod 256, Carry set iff a + m + c > 255, Zero set
\* iff the result is 0 and Negative set iff bit 7 of the result is set.
C11_AdcSumAndFlags ==
    Called("ADC") =>
        LET sum == last.pre.accumulator + OperandBefore + CarryBefore
        IN /\ accumulator = sum % 256
           /\ contains(status, Carry) <=> sum > 255
           /\ contains(status, Zero) <=> sum % 256 = 0
           /\ contains(status, Negative) <=> Bit(sum % 256, 7) = 1

\* C11 witness: 0x00 + 0xFF with the carry set, which gives 0 and a carry out
C11_Witness ==
    /\ Called("ADC")
    /\ last.pre.accumulator = 0
    /\ OperandBefore = 255
    /\ CarryBefore = 1
    /\ accumulator = 0
    /\ contains(status, Carry)
    /\ contains(status, Zero)

\* C12: for every a, m and c, ADC sets Overflow to
\* ((m ^ result) & (result ^ a) & 0x80) != 0, a being the accumulator before
\* the instruction, and that is exactly when the signed sum of a, m and c is
\* outside -128..127.
C12_AdcOverflow ==
    Called("ADC") =>
        LET a == last.pre.accumulator
            m == OperandBefore
            result == (a + m + CarryBefore) % 256
            signed == AsI8(a) + AsI8(m) + CarryBefore
        IN /\ contains(status, Overflow) <=>
                  BitAnd(BitAnd(BitXor(m, result), BitXor(result, a)), 128) # 0
           /\ contains(status, Overflow) <=> (signed < -128 \/ signed > 127)

\* C12 witness: 0x00 + 0x7F with the carry set overflows to -128
C12_Witness ==
    /\ Called("ADC")
    /\ last.pre.accumulator = 0
    /\ OperandBefore = 127
    /\ CarryBefore = 1
    /\ contains(status, Overflow)

\* C13: for every a, m (0x00 and 0x80 included) and c, SBC does what ADC does
\* with the complement of m: accumulator = (a - m - (1 - c)) mod 256 and Carry
\* set iff a >= m + (1 - c).
C13_SbcIsAdcOfComplement ==
    Called("SBC") =>
        LET a == last.pre.accumulator
            m == OperandBefore
            viaAdc == add_to_accumulator(last.pre, BitNot(m))
        IN /\ accumulator = (a - m - (1 - CarryBefore)) % 256
           /\ contains(status, Carry) <=> a >= m + (1 - CarryBefore)
           /\ accumulator = viaAdc.accumulator
           /\ status = viaAdc.status
           /\ memory = last.pre.memory

\* C13 witness: 0x00 - 0x80 with the carry set, which borrows and gives 0x80
C13_Witness ==
    /\ Called("SBC")
    /\ last.pre.accumulator = 0
    /\ OperandBefore = 128
    /\ CarryBefore = 1
    /\ accumulator = 128
    /\ ~contains(status, Carry)

\* the registers that only TXS, the stack and the transfers write
RegistersKept ==
    /\ accumulator = last.pre.accumulator
    /\ index_x = last.pre.index_x
    /\ index_y = last.pre.index_y
    /\ stack_pointer = last.pre.stack_pointer

C15_AslShiftsInPlace ==
    Called("ASL") =>
        LET v == IF last.addr = None THEN last.pre.accumulator ELSE OperandBefore
            result == (v * 2) % 256
        IN /\ contains(status, Carry) <=> Bit(v, 7) = 1
           /\ contains(status, Zero) <=> result = 0
           /\ contains(status, Negative) <=> Bit(result, 7) = 1
           /\ IF last.addr = None
              THEN /\ accumulator = result
                   /\ memory = last.pre.memory
              ELSE /\ Read8(memory, last.addr) = result
                   /\ Changed(last.pre.memory, memory) \subseteq {last.addr}
                   /\ accumulator = last.pre.accumulator

\* C15 witness: ASL of the memory byte 0x80, which leaves 0 there and the carry
C15_Witness ==
    /\ Called("ASL")
    /\ last.addr = OperandAddr
    /\ OperandBefore = 128
    /\ Read8(memory, OperandAddr) = 0
    /\ accumulator = last.pre.accumulator
    /\ accumulator # 0
    /\ contains(status, Carry)
    /\ contains(status, Zero)

\* C16: for every byte v and old carry c, ROL produces ((v << 1) | c) mod 256
\* with Carry = bit 7 of v, ROR produces (v >> 1) | (c << 7) with Carry = bit 0
\* of v; both set Zero/Negative from the result and write it back to the
\* accumulator or to the addressed memory byte.
C16_RolRorRotate ==
    (last.op = "step" /\ last.instruction \in {"ROL", "ROR"}) =>
        LET v == IF last.addr = None THEN last.pre.accumulator ELSE OperandBefore
            left == last.instruction = "ROL"
            result == IF left THEN (v * 2 + CarryBefore) % 256
                      ELSE (v \div 2) + 128 * CarryBefore
        IN /\ panic = NoPanic
           /\ contains(status, Carry) <=> (IF left THEN Bit(v, 7) ELSE Bit(v, 0)) = 1
           /\ contains(status, Zero) <=> result = 0
           /\ contains(status, Negative) <=> Bit(result, 7) = 1
           /\ IF last.addr = None
              THEN accumulator = result /\ memory = last.pre.memory
              ELSE Read8(memory, last.addr) = result

\* the status flags other than Zero and Negative are as before
OtherFlagsKept ==
    \A f \in Flags \ {Zero, Negative} : contains(status, f) <=> contains(last.pre.status, f)

\* C17: LDA, LDX and LDY set accumulator, index_x and index_y to the byte at
\* the resolved operand address (in immediate mode the byte after the opcode),
\* set Zero iff it is 0 and Negative iff its bit 7 is set, and change no other
\* register, flag or memory byte.
C17_LoadRegister ==
    (last.op = "step" /\ last.instruction \in {"LDA", "LDX", "LDY"}) =>
        LET m == OperandBefore
            i == last.instruction
        IN /\ panic = NoPanic
           /\ last.code \in {169, 162, 160} =>
                  last.addr = (last.pre.program_counter + 1) % 65536
           /\ accumulator = IF i = "LDA" THEN m ELSE last.pre.accumulator
           /\ index_x = IF i = "LDX" THEN m ELSE last.pre.index_x
           /\ index_y = IF i = "LDY" THEN m ELSE last.pre.index_y
           /\ stack_pointer = last.pre.stack_pointer
           /\ contains(status, Zero) <=> m = 0
           /\ contains(status, Negative) <=> Bit(m, 7) = 1
           /\ OtherFlagsKept
           /\ memory = last.pre.memory

\* C18: STA, STX and STY write accumulator, index_x and index_y to the byte at
\* the resolved address and change no status flag, no register other than
\* program_counter and no other memory byte.
C18_StoreRegister ==
    (last.op = "call" /\ last.instruction \in {"STA", "STX", "STY"}) =>
        LET r == CASE last.instruction = "STA" -> last.pre.accumulator
                   [] last.instruction = "STX" -> last.pre.index_x
                   [] last.instruction = "STY" -> last.pre.index_y
        IN /\ panic = NoPanic
           /\ Read8(memory, last.addr) = r
           /\ Changed(last.pre.memory, memory) \subseteq {last.addr}
           /\ status = last.pre.status
           /\ RegistersKept

\* C18 witness: STX over a different byte, next to a byte that stays
C18_Witness ==
    /\ Called("STX")
    /\ OperandBefore # last.pre.index_x
    /\ Read8(memory, OperandAddr) = last.pre.index_x
    /\ Read8(memory, GuardAddr) = GuardByte
    /\ last.pre.index_x # last.pre.accumulator

\* C19: INX, INY, DEX, DEY on their register and INC, DEC on the addressed
\* memory byte add or subtract 1 modulo 256 and set Zero iff the result is 0
\* and Negative iff its bit 7 is set; two INX from 0xFF leave index_x = 1.
C19_IncrementDecrement ==
    (last.op = "step" /\ last.instruction \in {"INX", "INY", "DEX", "DEY", "INC", "DEC"}) =>
        LET i == last.instruction
            v == CASE i \in {"INX", "DEX"} -> last.pre.index_x
                   [] i \in {"INY", "DEY"} -> last.pre.index_y
                   [] i \in {"INC", "DEC"} -> OperandBefore
            result == IF i \in {"INX", "INY", "INC"} THEN (v + 1) % 256 ELSE (v - 1) % 256
            now == CASE i \in {"INX", "DEX"} -> index_x
                     [] i \in {"INY", "DEY"} -> index_y
                     [] i \in {"INC", "DEC"} -> Read8(memory, last.addr)
        IN /\ panic = NoPanic
           /\ now = result
           /\ contains(status, Zero) <=> result = 0
           /\ contains(status, Negative) <=> Bit(result, 7) = 1
           /\ (i = "INX" /\ last.before.instruction = "INX" /\ last.before.op = "step"
                 /\ last.pre.index_x = 0) => index_x = 1

\* C20: JMP sets program_counter to its resolved address, the 16-bit operand
\* in absolute mode and the little-endian word stored at the operand in
\* indirect mode; the next instruction is fetched there, and no other
\* register, flag or memory byte changes.
C20_JmpTarget ==
    (last.op = "step" /\ last.instruction = "JMP") =>
        LET operand == Read8(last.pre.memory, (last.pre.program_counter + 1) % 65536)
                       + 256 * Read8(last.pre.memory, (last.pre.program_counter + 2) % 65536)
            target == IF last.code = 76 THEN operand
                      ELSE Read8(last.pre.memory, operand)
                           + 256 * Read8(last.pre.memory, (operand + 1) % 65536)
        IN /\ panic = NoPanic
           /\ program_counter = target
           /\ RegistersKept
           /\ status = last.pre.status
           /\ memory = last.pre.memory

\* C21: PHA (PHP) writes the accumulator (the status byte) to the stack slot
\* the stack pointer designated before the instruction and then advances the
\* stack pointer by 1; as the first stack operation after reset the byte lands
\* in the slot of the default stack pointer.
C21_PhaPhpPush ==
    (last.op = "step" /\ last.code \in {72, 8}) =>
        LET pushed == IF last.code = 72 THEN last.pre.accumulator ELSE last.pre.status
        IN /\ panic = NoPanic
           /\ Read8(memory, StackAddress(last.pre.stack_pointer)) = pushed
           /\ stack_pointer = advance(last.pre.stack_pointer, 1)
           /\ last.before.op = "run" /\ last.pre.stack_pointer = StackPointer_default =>
                  Read8(memory, StackAddress(StackPointer_default)) = pushed

\* C22: PLA retreats the stack pointer by 1, loads the byte found there into
\* the accumulator and sets Zero/Negative from it; PLP retreats the stack
\* pointer by 1 and replaces all 8 bits of status with the byte found there.
C22_PlaPlpPull ==
    (last.op = "step" /\ last.code \in {104, 40}) =>
        LET sp == advance(last.pre.stack_pointer, -1)
            pulled == Read8(last.pre.memory, StackAddress(sp))
        IN /\ panic = NoPanic
           /\ stack_pointer = sp
           /\ last.code = 104 =>
                  /\ accumulator = pulled
                  /\ contains(status, Zero) <=> pulled = 0
                  /\ contains(status, Negative) <=> Bit(pulled, 7) = 1
           /\ last.code = 40 => status = pulled

\* C23: RTI pops the status byte and then the 16-bit program_counter, undoing
\* the pushes of BRK: with the stack as BRK left it, status is the value BRK
\* pushed, program_counter the address BRK pushed and the stack pointer is
\* back at its value before the BRK.
C23_RtiUndoesBrk ==
    (last.op = "step" /\ last.code = 64) =>
        LET sp1 == advance(last.pre.stack_pointer, -1)
            sp3 == advance(last.pre.stack_pointer, -3)
        IN /\ panic = NoPanic
           /\ status = Read8(last.pre.memory, StackAddress(sp1))
           /\ program_counter = Read8(last.pre.memory, StackAddress(sp3))
                                + 256 * Read8(last.pre.memory, StackAddress(sp3) + 1)
           /\ stack_pointer = sp3
           /\ last.before.op = "step" /\ last.before.instruction = "BRK" =>
                  /\ program_counter = (last.before.pc + 1) % 65536
                  /\ stack_pointer = last.before.sp

\* C24: in IndirectY mode with zero-page operand z and index Y the effective
\* address is (base + Y) mod 65536, base being the little-endian word stored at
\* the zero-page pointer z, and the instruction reads or writes exactly the
\* byte at that address.
C24_IndirectYAddress ==
    (last.op = "step" /\ last.code \in {177, 145}) =>
        LET z == Read8(last.pre.memory, (last.pre.program_counter + 1) % 65536)
            base == Read8(last.pre.memory, z) + 256 * Read8(last.pre.memory, (z + 1) % 256)
            ea == (base + last.pre.index_y) % 65536
        IN /\ panic = NoPanic
           /\ last.addr = ea
           /\ last.code = 177 =>
                  /\ accumulator = Read8(last.pre.memory, ea)
                  /\ memory = last.pre.memory
           /\ last.code = 145 =>
                  /\ Read8(memory, ea) = last.pre.accumulator
                  /\ Changed(last.pre.memory, memory) \subseteq {ea}
                  /\ accumulator = last.pre.accumulator

\* C24 witness: LDA (zp),Y whose base + Y wraps past 0xFFFF and finds the byte
C24_Witness ==
    /\ last.op = "step"
    /\ last.code = 177
    /\ last.pre.index_y = 255
    /\ last.addr = 247
    /\ accumulator = OperandTarget

\* C25: when the byte fetched at program_counter has no opcode table entry,
\* run aborts at once: no instruction is executed, none is fetched afterwards,
\* and accumulator, index registers, stack pointer, status and memory are as
\* they were before that fetch.
C25_UnknownOpcodeAborts ==
    (last.op = "step" /\ last.code \notin DOMAIN OPCODES_MAP) =>
        /\ panic # NoPanic
        /\ phase = "Aborted"
        /\ last.instruction = "none"
        /\ RegistersKept
        /\ status = last.pre.status
        /\ memory = last.pre.memory

\* C25 witness: 0x4A fetched with a register the caller had set
C25_Witness ==
    /\ last.op = "step"
    /\ last.code = 74
    /\ panic = PanicUnrecognized
    /\ index_x = 255

\* C26: after load(bytes) followed by reset(), in either mode,
\* memory[origin + i] = bytes[i] for every i < len(bytes), the reset vector at
\* 0xFFFC-0xFFFD holds origin little-endian and program_counter = origin, with
\* origin 0x8000 in NES mode and 0x0600 in 6502 mode.
C26_LoadThenReset ==
    (last.op = "reset" /\ last.before.op = "load") =>
        LET bytes == last.before.val
            origin == IF last.pre.mode = "Mos6502" THEN 1536 ELSE 32768
        IN /\ \A i \in 1..Len(bytes) : Read8(memory, origin + i - 1) = bytes[i]
           /\ Read8(memory, 65532) = origin % 256
           /\ Read8(memory, 65533) = origin \div 256
           /\ program_counter = origin

\* C26 witness: a six-byte program loaded and reset in 6502 mode
C26_Witness ==
    /\ last.op = "reset"
    /\ last.before.op = "load"
    /\ last.pre.mode = "Mos6502"
    /\ Len(last.before.val) = 6
    /\ program_counter = 1536

\* C27: after reset(), whatever the registers held before,
\* accumulator = index_x = index_y = 0, stack_pointer = 0xFD, status has exactly
\* InterruptDisable, Break and Break2 set, and program_counter is the 16-bit
\* value at 0xFFFC; values assigned before load_and_run do not reach the run.
C27_ResetDefaults ==
    last.op = "reset" =>
        /\ accumulator = 0
        /\ index_x = 0
        /\ index_y = 0
        /\ stack_pointer = 253
        /\ \A f \in Flags :
               contains(status, f) <=> f \in {InterruptDisable, Break, Break2}
        /\ program_counter = Read8(memory, 65532) + 256 * Read8(memory, 65533)

\* C27 witness: a reset of a CPU whose status the caller had set to 0xFF
C27_Witness ==
    /\ last.op = "reset"
    /\ last.pre.status = 255
    /\ status = Status_default

\* the addresses load writes: the image and the reset vector
LoadedAddrs(program, md) ==
    {program_rom(md) + i - 1 : i \in 1..Len(program)} \cup {RESET, RESET + 1}

\* C28: reset() leaves every one of the 65536 memory bytes unchanged, so a
\* byte written before load_and_run outside the loaded image and the reset
\* vector is still there when the program reads it.
C28_ResetKeepsMemory ==
    /\ last.op = "reset" => memory = last.pre.memory
    /\ last.op = "load" =>
           Changed(last.pre.memory, memory) \subseteq LoadedAddrs(last.val, mode)

\* C28 witness: a reset of a memory holding a byte the caller wrote at 0x10
C28_Witness ==
    /\ last.op = "reset"
    /\ last.before.op = "load"
    /\ Read8(memory, 16) = 128
    /\ Read8(last.pre.memory, 16) = 128

\* C29: for every address a < 0xFFFF and 16-bit value v, a 16-bit write of v at
\* a stores the low byte of v at a and the high byte at a + 1, leaves all other
\* bytes unchanged, and a 16-bit read at a afterwards returns v.
C29_Write16Read16 ==
    /\ (last.op = "write_u16" /\ last.addr < 65535) =>
           /\ panic = NoPanic
           /\ Read8(memory, last.addr) = last.val % 256
           /\ Read8(memory, last.addr + 1) = last.val \div 256
           /\ Changed(last.pre.memory, memory) \subseteq {last.addr, last.addr + 1}
    /\ (last.op = "read_u16" /\ last.before.op = "write_u16"
          /\ last.before.addr = last.addr /\ last.addr < 65535) =>
           /\ panic = NoPanic
           /\ last.val = last.before.val

\* C29 witness: 0xBAFC written over other bytes at 0xFFFE and read back
C29_Witness ==
    /\ last.op = "read_u16"
    /\ last.before.op = "write_u16"
    /\ last.addr = 65534
    /\ last.before.addr = 65534
    /\ last.val = 47868
    /\ Read8(memory, 65533) = 170

\* C30: for every 8-bit v and 16-bit s, after set_zero(v) Zero is set iff
\* v = 0, after set_negative(v) Negative is set iff bit 7 of v is set, after
\* set_carry(s) Carry is set iff s > 255, whatever the flag was before.
C30_StatusSetters ==
    /\ last.op = "set_zero" => (contains(status, Zero) <=> last.val = 0)
    /\ last.op = "set_negative" => (contains(status, Negative) <=> last.val \div 128 = 1)
    /\ last.op = "set_carry" => (contains(status, Carry) <=> last.val > 255)

\* C30 witness: set_carry(255) on a status whose carry was set clears it
C30_Witness ==
    /\ last.op = "set_carry"
    /\ last.val = 255
    /\ contains(last.pre.status, Carry)
    /\ ~contains(status, Carry)

\* the flag instructions, the bit each one writes and the value it writes
FlagInstructions == {"CLC", "CLD", "CLI", "CLV", "SEC", "SED", "SEI"}

FlagWritten(i) ==
    CASE i \in {"CLC", "SEC"} -> Carry
      [] i \in {"CLD", "SED"} -> Decimal
      [] i \in {"CLI", "SEI"} -> InterruptDisable
      [] i = "CLV" -> Overflow

\* C31: each of CLC, CLD, CLI, CLV clears and each of SEC, SED, SEI sets
\* exactly its one status bit whatever it was, and changes no other status bit,
\* no register other than program_counter (which advances by 1) and no memory
\* byte.
C31_FlagInstructions ==
    (last.op = "step" /\ last.instruction \in FlagInstructions) =>
        /\ panic = NoPanic
        /\ \A f \in Flags :
               contains(status, f) <=>
                   IF f = FlagWritten(last.instruction)
                   THEN last.instruction \in {"SEC", "SED", "SEI"}
                   ELSE contains(last.pre.status, f)
        /\ RegistersKept
        /\ program_counter = (last.pre.program_counter + 1) % 65536
        /\ memory = last.pre.memory

\* C31 witness: CLV executed with every flag set
C31_Witness ==
    /\ Executed("CLV")
    /\ last.pre.status = 255 - Carry - Decimal - InterruptDisable
    /\ status = last.pre.status - Overflow

\* the instructions that leave program_counter where the fetch put it
ImpliedInstructions ==
    FlagInstructions \cup {"INX", "TAX", "TAY", "TSX", "TXA", "TXS", "TYA"}

\* the opcodes resolved in immediate mode
ImmediateCodes == {code \in DOMAIN OPCODES_MAP : OPCODES_MAP[code].mode = "Immediate"}

\* C32: program_counter arithmetic wraps modulo 65536 and never aborts the
\* run: a fetch of the byte at 0xFFFF, an immediate-mode resolution at 0xFFFF
\* and the sum JSR pushes never end in an arithmetic-overflow abort, and an
\* operand-less instruction fetched at 0xFFFF or an immediate-mode instruction
\* fetched at 0xFFFE leaves program_counter at 0x0000.
C32_ProgramCounterWraps ==
    LET fetch == last.op = "step" /\ last.pre.program_counter = 65535
        immediate == /\ last.op = "step" /\ last.pre.program_counter = 65534
                     /\ Read8(last.pre.memory, 65534) \in ImmediateCodes
    IN /\ (fetch \/ immediate \/ Decoded("JSR")) => panic # PanicOverflow
       /\ (fetch /\ last.instruction \in ImpliedInstructions) => program_counter = 0
       /\ (immediate /\ panic = NoPanic) => program_counter = 0

\* C33: a 16-bit read or write at address 0xFFFF does not fail: its low byte is
\* the byte at 0xFFFF and its high byte the byte at 0x0000, the address space
\* wrapping around; no 16-bit access, an operand fetch included, ends in a
\* bounds failure.
C33_WordAtTopOfMemory ==
    /\ panic # PanicBounds
    /\ (last.op = "write_u16" /\ last.addr = 65535) =>
           /\ Read8(memory, 65535) = last.val % 256
           /\ Read8(memory, 0) = last.val \div 256
    /\ (last.op = "read_u16" /\ last.addr = 65535) =>
           last.val = Read8(last.pre.memory, 65535) + 256 * Read8(last.pre.memory, 0)

\* the bytes that follow the opcode of the last step
OperandByte == Read8(last.pre.memory, (last.pre.program_counter + 1) % 65536)

OperandWord == OperandByte + 256 * Read8(last.pre.memory, (last.pre.program_counter + 2) % 65536)

\* C34: ZeroPageX and ZeroPageY resolve to (operand + index) mod 256, an
\* address in 0x00..0xFF, AbsoluteX and AbsoluteY to (16-bit operand + index)
\* mod 65536, and program_counter advances by the operand width, 1 or 2 bytes,
\* past the opcode.
C34_IndexedAddress ==
    (last.op = "step" /\ last.code \in DOMAIN OPCODES_MAP) =>
        LET md == OPCODES_MAP[last.code].mode
            p == last.pre.program_counter
        IN /\ md \in {"ZeroPageX", "ZeroPageY"} =>
                  /\ panic = NoPanic
                  /\ last.addr = (OperandByte + (IF md = "ZeroPageX" THEN last.pre.index_x
                                                 ELSE last.pre.index_y)) % 256
                  /\ last.addr \in 0..255
                  /\ program_counter = p + 2
           /\ md \in {"AbsoluteX", "AbsoluteY"} =>
                  /\ panic = NoPanic
                  /\ last.addr = (OperandWord + (IF md = "AbsoluteX" THEN last.pre.index_x
                                                 ELSE last.pre.index_y)) % 65536
                  /\ program_counter = p + 3

\* C34 witness: LDA $FFF8,X with X = 0x10 finds the byte at 0x0008, the sum
\* having wrapped
C34_Witness ==
    /\ last.op = "step"
    /\ last.code = 189
    /\ last.pre.index_x = 16
    /\ last.addr = 8
    /\ accumulator = OperandTarget

StatusSetters == {"set", "set_zero", "set_negative", "set_carry", "set_overflow"}

\* C35: each status setter (set, set_zero, set_negative, set_carry,
\* set_overflow) changes at most the one bit it names: for every prior status
\* byte and every input the other seven bits are the same before and after.
C35_SettersKeepOtherBits ==
    last.op \in StatusSetters =>
        \A f \in Flags \ {last.code} : contains(status, f) <=> contains(last.pre.status, f)

\* C35 witness: set_negative(0x7F) on a status of all ones clears bit 7 alone
C35_Witness ==
    /\ last.op = "set_negative"
    /\ last.val = 127
    /\ last.pre.status = 255
    /\ status = 127

\* C36: reset leaves the mode unchanged: a CPU put in 6502 mode is still in
\* that mode after reset and during the run that follows it, so a later load
\* places its program at the same ROM origin.
C36_ResetKeepsMode ==
    /\ last.op = "reset" =>
           /\ mode = last.pre.mode
           /\ program_rom(mode) = program_rom(last.pre.mode)
    /\ (last.op = "run" /\ last.before.op = "reset") => mode = last.pre.mode

\* C37: every opcode table entry whose instruction is dispatched through
\* with_operand has an addressing mode that yields an address (it is not
\* NoneAddressing), so no program of table opcodes reaches the missing-operand
\* abort.
C37_OperandAlwaysResolved ==
    /\ \A n \in DOMAIN CPU_OPS_CODES :
           CPU_OPS_CODES[n].instruction \in WithOperand =>
               CPU_OPS_CODES[n].mode # "NoneAddressing"
    /\ panic # PanicMissingOperand
    /\ (last.op = "step" /\ last.instruction \in WithOperand /\ panic = NoPanic) =>
           /\ OPCODES_MAP[last.code].mode # "NoneAddressing"
           /\ ~MissingOperand(last.addr)

\* C37 witness: JSR $0000 went through with_operand with the address 0
C37_Witness ==
    /\ Executed("JSR")
    /\ last.addr = 0
    /\ program_counter = 0

\* the bytes get_operand_address takes from the instruction stream in mode md,
\* measured on the CPU as it is with program_counter at the NES origin
ConsumedBytes(md) ==
    LET c == [Self EXCEPT !.program_counter = program_rom(Mode_default), !.panic = NoPanic]
    IN get_operand_address(c, md).c.program_counter - c.program_counter

\* the instructions that assign program_counter
ControlInstructions == {"BRK", "JMP", "JSR", "RTI", "RTS"}

C39_PointerInZeroPage ==
    (last.op = "step" /\ last.code \in DOMAIN OPCODES_MAP
        /\ OPCODES_MAP[last.code].mode \in {"IndirectX", "IndirectY"}) =>
        LET x == OPCODES_MAP[last.code].mode = "IndirectX"
            loc == IF x THEN (OperandByte + last.pre.index_x) % 256 ELSE OperandByte
            lo == Read8(last.pre.memory, loc)
            hi == Read8(last.pre.memory, (loc + 1) % 256)
            ptr == lo + 256 * hi
        IN /\ panic = NoPanic
           /\ loc \in 0..255
           /\ last.addr = IF x THEN ptr ELSE (ptr + last.pre.index_y) % 65536
           /\ loc = 255 => hi = Read8(last.pre.memory, 0)

\* C39 witness: LDA ($FF,X) with X = 0 takes its pointer 0xBAFC from 0xFF
\* and 0x00, 0x0100 holding another byte, and loads the byte at 0xBAFC
C39_Witness ==
    /\ last.op = "step"
    /\ last.code = 161
    /\ (OperandByte + last.pre.index_x) % 256 = 255
    /\ Read8(last.pre.memory, 256) = PageOneByte
    /\ Read8(last.pre.memory, 0) = 186
    /\ last.addr = 47868
    /\ accumulator = OperandTarget

\* the modes that add X, and those that add Y
IndexedByX == {"ZeroPageX", "AbsoluteX", "IndirectX"}

IndexedByY == {"ZeroPageY", "AbsoluteY", "IndirectY"}

\* C40: no load instruction indexes its operand by the register it loads:
\* every indexed opcode table entry of LDY indexes with X (0xB4 is zero-page,X
\* and 0xBC absolute,X) and every indexed entry of LDX indexes with Y (0xB6 is
\* zero-page,Y and 0xBE absolute,Y); the address run resolves for 0xB4 is
\* (operand + X) mod 256.
C40_LoadIndexedByOtherRegister ==
    /\ \A n \in DOMAIN CPU_OPS_CODES :
           LET e == CPU_OPS_CODES[n]
           IN /\ e.instruction = "LDY" => e.mode \notin IndexedByY
              /\ e.instruction = "LDX" => e.mode \notin IndexedByX
    /\ OPCODES_MAP[180].mode = "ZeroPageX"
    /\ OPCODES_MAP[188].mode = "AbsoluteX"
    /\ OPCODES_MAP[182].mode = "ZeroPageY"
    /\ OPCODES_MAP[190].mode = "AbsoluteY"
    /\ (last.op = "step" /\ last.code = 180 /\ last.addr # None) =>
           last.addr = (OperandByte + last.pre.index_x) % 256

====
